---- MODULE Spec2Model ----
(***************************************************************************)
(* Bulk File Renamer: the rename engine (bulk_file_renamer/renamer.py) and *)
(* the undo engine (undo.py) as a state machine over one target directory. *)
(*                                                                         *)
(* File names are sequences of one-character strings.  The target          *)
(* directory holds regular files (dir) and backup_* sub-directories        *)
(* (backups).  now is the wall clock in seconds (time.time()); tick is the  *)
(* order of filesystem writes and stands for modification times.           *)
(* rename_files is split at its filesystem calls, so that the states       *)
(* between the copy and the move of a file are visible; undo_rename is one *)
(* step.  Backup and log paths are the default ones (no override).         *)
(***************************************************************************)
EXTENDS Integers, Sequences, FiniteSets, TLC

VARIABLES
    dir,            \* regular files of the target directory: name -> file
    backups,        \* backup_* directories: name -> [mtime, files, by]
    now,            \* wall clock, seconds
    tick,           \* logical modification-time counter
    pc,             \* position of rename_files: idle / loop / copy / move
    cfg,            \* the BulkRenameConfig of the running rename_files
    files,          \* rename_files: sorted list from _collect_files
    idx,            \* rename_files: index of the next file of the loop
    counter,        \* rename_files: numbering counter
    rename_records, \* rename_files: records appended so far
    backup_dir,     \* rename_files: backup directory path
    log_file,       \* rename_files: log file path
    cur,            \* rename_files: record of the file being renamed
    ret,            \* outcome of the last rename_files call
    undoRes,        \* result of the last undo_rename call
    pre,            \* history: dir when the last rename_files started
    preB,           \* history: backups when the last rename_files started
    preU,           \* history: dir and backups when the last undo started,
                    \* the log and backup directory it found, the fault it met
    last,           \* history: kind of the last finished operation
    recent,         \* history: outcome of the most recent non-dry-run
                    \* rename_files that entered its loop, undos since then
    again,          \* history: the running rename_files repeats the call
                    \* made directly before it, which returned
    ops             \* history: number of operations started

vars == <<dir, backups, now, tick, pc, cfg, files, idx, counter,
          rename_records, backup_dir, log_file, cur, ret, undoRes,
          pre, preB, again, preU, last, recent, ops>>

(***************************************************************************)
(* Bounds                                                                  *)
(***************************************************************************)
MaxOps == 3
MaxTime == 2
\* the operations of a long run on a small directory
MaxOpsLong == 4

(***************************************************************************)
(* Characters and names                                                    *)
(***************************************************************************)
\* the characters used, in code point order (sorted() compares code points)
Chars == <<".", "0", "1", "2", "3", "4", "5", "6", "7", "8", "9",
           "J", "T", "X", "_",
           "a", "b", "c", "e", "g", "j", "k", "l", "m", "n", "o", "p", "r",
           "s", "t", "u", "x">>

CodePoints == [c \in {Chars[i] : i \in 1..Len(Chars)} |->
                  CHOOSE i \in 1..Len(Chars) : Chars[i] = c]

Ord(c) == CodePoints[c]

Min(a, b) == IF a < b THEN a ELSE b

Max(a, b) == IF a > b THEN a ELSE b

\* str < str of Python: lexicographic by code point, a proper prefix is less
StrLess(a, b) ==
    \E i \in 1..(Min(Len(a), Len(b)) + 1) :
        /\ \A j \in 1..(i - 1) : a[j] = b[j]
        /\ \/ i = Len(a) + 1 /\ i <= Len(b)
           \/ i <= Len(a) /\ i <= Len(b) /\ Ord(a[i]) < Ord(b[i])

RECURSIVE Sorted(_)
Sorted(S) ==
    IF S = {} THEN <<>>
    ELSE LET m == CHOOSE x \in S : \A y \in S \ {x} : StrLess(x, y)
         IN  <<m>> \o Sorted(S \ {m})

StartsWith(s, p) == Len(s) >= Len(p) /\ SubSeq(s, 1, Len(p)) = p

EndsWith(s, p) == Len(s) >= Len(p) /\ SubSeq(s, Len(s) - Len(p) + 1, Len(s)) = p

\* str.lower() on the letters of Chars
LowerChar(c) ==
    CASE c = "J" -> "j"
      [] c = "T" -> "t"
      [] c = "X" -> "x"
      [] OTHER -> c

Lower(s) == [i \in 1..Len(s) |-> LowerChar(s[i])]

Digit(d) == Chars[Ord("0") + d]

RECURSIVE Str(_)
Str(n) == IF n < 10 THEN <<Digit(n)>> ELSE Str(n \div 10) \o <<Digit(n % 10)>>

RECURSIVE Zfill(_, _)
Zfill(s, width) == IF Len(s) >= width THEN s ELSE Zfill(<<"0">> \o s, width)

\* str.replace(old, new) for a one-character old
RECURSIVE Replace(_, _, _)
Replace(s, old, new) ==
    IF s = <<>> THEN <<>>
    ELSE (IF Head(s) = old THEN new ELSE <<Head(s)>>) \o Replace(Tail(s), old, new)

\* os.path.splitext on a base name: the extension starts at the last dot,
\* unless only dots come before it
SplitExt(name) ==
    LET dots == {i \in 1..Len(name) : name[i] = "."}
        d    == CHOOSE i \in dots : \A j \in dots : j <= i
    IN  IF dots # {} /\ (\E j \in 1..(d - 1) : name[j] # ".")
        THEN [stem |-> SubSeq(name, 1, d - 1), ext |-> SubSeq(name, d, Len(name))]
        ELSE [stem |-> name, ext |-> <<>>]

RenameLogPrefix == <<"r", "e", "n", "a", "m", "e", "_", "l", "o", "g", "_">>

JsonExt == <<".", "j", "s", "o", "n">>

BackupPrefix == <<"b", "a", "c", "k", "u", "p", "_">>

\* f"backup_{int(time.time())}"
DefaultBackupDir(t) == BackupPrefix \o Str(t)

\* f"rename_log_{int(time.time())}.json"
DefaultLogFile(t) == RenameLogPrefix \o Str(t) \o JsonExt

\* glob "rename_log_*.json"
IsLogName(n) ==
    /\ Len(n) >= Len(RenameLogPrefix) + Len(JsonExt)
    /\ StartsWith(n, RenameLogPrefix)
    /\ EndsWith(n, JsonExt)

\* glob "backup_*"
IsBackupName(n) == StartsWith(n, BackupPrefix)

(***************************************************************************)
(* Finite maps                                                             *)
(***************************************************************************)
Put(f, k, v) == [x \in (DOMAIN f) \cup {k} |-> IF x = k THEN v ELSE f[x]]

Del(f, k) == [x \in (DOMAIN f) \ {k} |-> f[x]]

EmptyMap == [x \in {} |-> 0]

(***************************************************************************)
(* BulkRenameConfig                                                        *)
(***************************************************************************)
\* The paths a caller may pass as directory: "D" is the target directory,
\* "file" is a regular file, "missing" does not exist, "" is no path.
PathExists(d) == d \in {"D", "file"}

IsDir(d) == d = "D"

\* a normalisation that lowers the case but adds no leading dot
RECURSIVE _normalize_extensionsNoDot(_)
_normalize_extensionsNoDot(extensions) ==
    IF extensions = <<>> THEN <<>>
    ELSE LET rest == _normalize_extensionsNoDot(Tail(extensions))
         IN  IF Head(extensions) = <<>> THEN rest
             ELSE <<Lower(Head(extensions))>> \o rest

\* BulkRenameConfig._normalize_extensions; <<>> stands for None
RECURSIVE _normalize_extensions(_)
_normalize_extensions(extensions) ==
    IF extensions = <<>> THEN <<>>
    ELSE LET ext  == Lower(Head(extensions))
             rest == _normalize_extensions(Tail(extensions))
         IN  IF Head(extensions) = <<>> THEN rest
             ELSE IF ext[1] = "." THEN <<ext>> \o rest
             ELSE <<(<<".">> \o ext)>> \o rest

\* BulkRenameConfig.__init__ applied to the caller's arguments
BulkRenameConfig(args) ==
    [args EXCEPT !.extensions = _normalize_extensions(args.extensions)]

\* validate without the test that pattern and replacement come together
validateNoPairing(c) ==
    IF c.directory = "" THEN "A directory path is required."
    ELSE IF ~PathExists(c.directory) THEN "Directory not found"
    ELSE IF ~IsDir(c.directory) THEN "Path is not a directory"
    ELSE IF c.numbering /\ c.numbering_padding < 0
         THEN "Numbering padding must be non-negative."
    ELSE IF c.numbering /\ c.numbering_start < 0
         THEN "Numbering start must be non-negative."
    ELSE ""

\* BulkRenameConfig.validate: the message of the ValueError raised, "" if none
validate(c) ==
    IF c.directory = "" THEN "A directory path is required."
    ELSE IF ~PathExists(c.directory) THEN "Directory not found"
    ELSE IF ~IsDir(c.directory) THEN "Path is not a directory"
    ELSE IF c.numbering /\ c.numbering_padding < 0
         THEN "Numbering padding must be non-negative."
    ELSE IF c.numbering /\ c.numbering_start < 0
         THEN "Numbering start must be non-negative."
    ELSE IF (c.regex_pattern # <<>>) # (c.regex_replacement # <<>>)
         THEN "Both --regex-pattern and --regex-replacement are required together."
    ELSE ""

(***************************************************************************)
(* Name computation                                                        *)
(***************************************************************************)
\* The regular expressions of the model: a literal character c, written
\* <<c>>, or c followed by an empty group, written <<c, "(", ")">>; a
\* replacement is a sequence of literal characters and "\\1" references to
\* group 1.  A pattern with unbalanced parentheses does not compile.
Count(s, c) == Cardinality({i \in 1..Len(s) : s[i] = c})

ReError(pattern, repl) ==
    \/ Count(pattern, "(") # Count(pattern, ")")
    \/ Count(pattern, "(") = 0 /\ Count(repl, "\\1") > 0

\* re.sub(pattern, repl, s): every occurrence of the literal is replaced;
\* group 1 is empty, so each "\\1" of the replacement expands to nothing
ReSub(pattern, repl, s) == Replace(s, pattern[1], Replace(repl, "\\1", <<>>))

\* time.strftime(format): a format is a sequence of literal characters and
\* "%S" directives (seconds of the minute, two digits)
RECURSIVE Strftime(_, _)
Strftime(format, t) ==
    IF format = <<>> THEN <<>>
    ELSE (IF Head(format) = "%S" THEN Zfill(Str(t % 60), 2) ELSE <<Head(format)>>)
         \o Strftime(Tail(format), t)

\* a numbering token that is never padded
NumberTokenNoPad(c, n) == Str(n)

\* the numbering token of _build_new_name
NumberToken(c, n) ==
    LET padding == Max(0, c.numbering_padding)
    IN  IF padding # 0 THEN Zfill(Str(n), padding) ELSE Str(n)

\* a name computation that substitutes after the prefix and the suffix are on
_build_new_nameRegexLast(original_name, c, n, t) ==
    LET parts == SplitExt(original_name)
        regex == c.regex_pattern # <<>> /\ c.regex_replacement # <<>>
        bad   == regex /\ ReError(c.regex_pattern, c.regex_replacement)
        s1    == c.prefix \o parts.stem \o c.suffix
        s2    == IF regex /\ ~bad
                 THEN ReSub(c.regex_pattern, c.regex_replacement, s1)
                 ELSE s1
        s4    == IF c.numbering THEN s2 \o NumberToken(c, n) ELSE s2
        s5    == IF c.timestamp
                 THEN s4 \o Replace(Strftime(c.timestamp_format, t), " ", <<"_">>)
                 ELSE s4
    IN  IF bad THEN [err |-> TRUE, error |-> "Invalid regex pattern", name |-> <<>>]
        ELSE IF s2 = <<>>
        THEN [err |-> TRUE, error |-> "Regex produced an empty file name", name |-> <<>>]
        ELSE [err |-> FALSE, error |-> "", name |-> s5 \o parts.ext]

\* _build_new_name(original_name, config, counter) at wall-clock time t:
\* err is TRUE when it raises ValueError
_build_new_name(original_name, c, n, t) ==
    LET parts == SplitExt(original_name)
        regex == c.regex_pattern # <<>> /\ c.regex_replacement # <<>>
        bad   == regex /\ ReError(c.regex_pattern, c.regex_replacement)
        s1    == IF regex /\ ~bad
                 THEN ReSub(c.regex_pattern, c.regex_replacement, parts.stem)
                 ELSE parts.stem
        s2    == c.prefix \o s1
        s3    == s2 \o c.suffix
        s4    == IF c.numbering THEN s3 \o NumberToken(c, n) ELSE s3
        s5    == IF c.timestamp
                 THEN s4 \o Replace(Strftime(c.timestamp_format, t), " ", <<"_">>)
                 ELSE s4
    IN  IF bad THEN [err |-> TRUE, error |-> "Invalid regex pattern", name |-> <<>>]
        ELSE IF s1 = <<>>
        THEN [err |-> TRUE, error |-> "Regex produced an empty file name", name |-> <<>>]
        ELSE [err |-> FALSE, error |-> "", name |-> s5 \o parts.ext]

(***************************************************************************)
(* Filesystem                                                              *)
(***************************************************************************)
\* a regular file: kind "data" with content id (text that is no JSON), or
\* kind "log" with the records of the JSON log; by is the operation that
\* wrote it (history)
DataFile(id) == [kind |-> "data", id |-> id, recs |-> <<>>, gen |-> 0, mtime |-> 0, by |-> 0]

LogFile(records, t, m, op) ==
    [kind |-> "log", id |-> 0, recs |-> records, gen |-> t, mtime |-> m, by |-> op]

\* a regular file whose bytes are no UTF-8 text
BinaryFile(id) == [DataFile(id) EXCEPT !.kind = "binary"]

\* what a file holds, without its modification time
Content(f) == [kind |-> f.kind, id |-> f.id, recs |-> f.recs, gen |-> f.gen, by |-> f.by]

\* an existence test that finds directories only
ExistsDirOnly(name) == name \in DOMAIN backups

\* os.path.exists for a path directly inside the target directory
Exists(name) == name \in DOMAIN dir \/ name \in DOMAIN backups

\* a comparison that never finds the two paths equal
SamePathNever(original_name, new_name) == FALSE

\* os.path.abspath(file_path) == os.path.abspath(new_path), both paths
\* being joined to the same directory
SamePath(original_name, new_name) == original_name = new_name

RECURSIVE Reversed(_)
Reversed(s) == IF s = <<>> THEN <<>> ELSE Append(Reversed(Tail(s)), Head(s))

\* a listing in descending order of the paths
_collect_filesReversed(d, extensions) ==
    Reversed(Sorted({n \in DOMAIN d :
                       extensions = <<>>
                       \/ \E i \in 1..Len(extensions) :
                             Lower(SplitExt(n).ext) = extensions[i]}))

\* a listing that leaves out the files named like a rename log
_collect_filesNoLogs(d, extensions) ==
    Sorted({n \in DOMAIN d :
              /\ ~IsLogName(n)
              /\ \/ extensions = <<>>
                 \/ \E i \in 1..Len(extensions) :
                       Lower(SplitExt(n).ext) = extensions[i]})

\* _collect_files(directory, extensions)
_collect_files(d, extensions) ==
    Sorted({n \in DOMAIN d :
              extensions = <<>>
              \/ \E i \in 1..Len(extensions) : Lower(SplitExt(n).ext) = extensions[i]})

\* the backup directory is created but the file is not copied into it
BackupCopyDirOnly(bk, bdir, name, file, m, op) ==
    IF bdir \in DOMAIN bk THEN bk
    ELSE Put(bk, bdir, [mtime |-> m, files |-> EmptyMap, by |-> op, used |-> {op}])

\* _ensure_directory(path) followed by shutil.copy2(file_path, backup_path):
\* the directory's modification time changes when an entry is added to it
BackupCopy(bk, bdir, name, file, m, op) ==
    LET old == IF bdir \in DOMAIN bk THEN bk[bdir]
               ELSE [mtime |-> m, files |-> EmptyMap, by |-> op, used |-> {}]
    IN  Put(bk, bdir,
            [mtime |-> IF name \in DOMAIN old.files THEN old.mtime ELSE m,
             files |-> Put(old.files, name, file),
             by    |-> old.by,
             used  |-> old.used \cup {op}])

\* a copy in place of the move: the source stays
ReplacedKeepsSource(d, from, to) == Put(d, to, d[from])

\* os.replace(file_path, new_path)
Replaced(d, from, to) == Put(Del(d, from), to, d[from])

IsRenamedRecord(r) == r.skipped = ""

\* a log that leaves out the records marked 'skipped'
_write_logRenamedOnly(d, path, records, t, m, op) ==
    Put(d, path, LogFile(SelectSeq(records, IsRenamedRecord), t, m, op))

\* _write_log(log_path, records)
_write_log(d, path, records, t, m, op) == Put(d, path, LogFile(records, t, m, op))

(***************************************************************************)
(* Inputs                                                                  *)
(***************************************************************************)
f_X == <<"X", ".", "T", "X", "T">>

f_ab == <<"a", "b", ".", "t", "x", "t">>

f_b == <<"b", ".", "t", "x", "t">>

f_ba == <<"b", "a", ".", "t", "x", "t">>

f_cJ == <<"c", ".", "J", "p", "g">>

\* the directories a run starts from: each file has a content of its own
InitDirs ==
    { [n \in {f_X, f_ab, f_b} |->
          DataFile(IF n = f_X THEN 1 ELSE IF n = f_ab THEN 2 ELSE 3)],
      [n \in {f_ab, f_ba, f_cJ} |->
          DataFile(IF n = f_ab THEN 1 ELSE IF n = f_ba THEN 2 ELSE 3)] }

f_a1 == <<"a", "1", ".", "t", "x", "t">>

\* the directory of the runs with numbering and timestamps
InitDirsN ==
    { [n \in {f_a1, f_ab, f_b} |->
          DataFile(IF n = f_a1 THEN 1 ELSE IF n = f_ab THEN 2 ELSE 3)] }

\* the arguments of the command line with no option given (cli.py defaults)
Defaults ==
    [directory |-> "D", prefix |-> <<>>, suffix |-> <<>>, numbering |-> FALSE,
     numbering_start |-> 1, numbering_padding |-> 3, timestamp |-> FALSE,
     timestamp_format |-> <<" ", "%S">>, regex_pattern |-> <<>>,
     regex_replacement |-> <<>>, extensions |-> <<>>, dry_run |-> FALSE]

PrefixA == [Defaults EXCEPT !.prefix = <<"a">>]

\* the pattern "b()" with the replacement "\1" deletes every b of the stem
DelB == [Defaults EXCEPT !.regex_pattern = <<"b", "(", ")">>,
                         !.regex_replacement = <<"\\1">>]

\* the configurations of the main specification: they pass validate
Configs ==
    { Defaults,
      PrefixA,
      [PrefixA EXCEPT !.dry_run = TRUE],
      DelB,
      [Defaults EXCEPT !.suffix = <<"x">>,
                       !.extensions = << <<>>, <<"T", "X", "T">> >>] }

\* --numbering with the default start 1 and padding 3
Num == [Defaults EXCEPT !.numbering = TRUE]

\* numbers that grow wider than the padding: 9, 10, 11
Num9 == [Num EXCEPT !.numbering_start = 9, !.numbering_padding = 1]

\* the pattern "1()" with the replacement "\1" deletes every 1 of the stem,
\* and the number is appended without padding
DelOneNum == [Num EXCEPT !.numbering_padding = 0,
                         !.regex_pattern = <<"1", "(", ")">>,
                         !.regex_replacement = <<"\\1">>]

\* every naming option at once: b -> c, prefix b, suffix bs, number, timestamp
AllOptions == [Num EXCEPT !.numbering_padding = 2,
                          !.regex_pattern = <<"b">>,
                          !.regex_replacement = <<"c">>,
                          !.prefix = <<"b">>,
                          !.suffix = <<"b", "s">>,
                          !.timestamp = TRUE]

\* the configurations of the specification of numbering and timestamps
ConfigsN ==
    { Num, Num9, DelOneNum, AllOptions,
      [Num9 EXCEPT !.dry_run = TRUE],
      [AllOptions EXCEPT !.dry_run = TRUE] }

\* configurations whose name computation raises
BadRegexConfigs ==
    { [DelB EXCEPT !.dry_run = TRUE],
      [Defaults EXCEPT !.regex_pattern = <<"(">>, !.regex_replacement = <<"x">>] }

\* configurations that rename_files rejects before its loop
InvalidConfigs ==
    { [PrefixA EXCEPT !.directory = ""],
      [PrefixA EXCEPT !.directory = "missing"],
      [PrefixA EXCEPT !.directory = "file"],
      [PrefixA EXCEPT !.numbering = TRUE, !.numbering_start = -1],
      [PrefixA EXCEPT !.numbering = TRUE, !.numbering_padding = -1],
      [PrefixA EXCEPT !.regex_pattern = <<"b">>],
      [PrefixA EXCEPT !.regex_replacement = <<"c">>],
      [PrefixA EXCEPT !.extensions = <<<<".", "m", "p", "3">>>>] }

\* the configurations of the specification of rejected calls
ConfigsV == InvalidConfigs \cup BadRegexConfigs \cup {Defaults, PrefixA}

\* the directory of the long runs: two files
InitDirsL == { [n \in {f_ab, f_b} |-> DataFile(IF n = f_ab THEN 1 ELSE 2)] }

\* the configurations of the long runs
ConfigsL == { PrefixA, DelB }

NoRecord == [original_name |-> <<>>, new_name |-> <<>>, skipped |-> "", renamed_at |-> 0]

NoConfig == Defaults

NoRet == [status |-> "none", error |-> "", renamed_count |-> 0, backup_dir |-> <<>>,
          log_file |-> <<>>, dry_run |-> FALSE, records |-> <<>>, op |-> 0]

\* the result dictionary of undo_rename as it is initialised; raised names
\* the exception when the call raises instead of returning
NoUndo == [success |-> FALSE, restored_count |-> 0, skipped_count |-> 0,
           error_message |-> "", log_file |-> <<>>, backup_dir |-> <<>>,
           details |-> <<>>, raised |-> ""]

\* an exception raised by the operating system in the restore step of the
\* at-th record of an undo: in shutil.copy2, before it has written, or in
\* os.remove (the renamed file is in use, the directory is read-only)
NoFault == [at |-> 0, op |-> "none"]

NoSnapshot == [dir |-> EmptyMap, backups |-> EmptyMap, last |-> "none",
               fault |-> NoFault, lg |-> <<>>, bd |-> <<>>]

\* a file that lies in the directory under a name of the log pattern
\* before the program has run: rename_log_0.json
StrayLog == DefaultLogFile(0)

\* what the stray file may hold: text that is no JSON, bytes that are no
\* UTF-8 text, a log without records, a log whose first record has no
\* original_path
StrayFiles ==
    { DataFile(9), BinaryFile(9), LogFile(<<>>, 0, 0, 0), LogFile(<<NoRecord>>, 0, 0, 0) }

\* the directories of the runs of undo_rename, with a log that the program
\* did not write or with none
InitDirsU ==
    { [n \in {f_ab, f_b, StrayLog} |->
          IF n = f_ab THEN DataFile(1) ELSE IF n = f_b THEN DataFile(2) ELSE stray] :
      stray \in StrayFiles }
    \cup { [n \in {f_ab, f_b} |-> IF n = f_ab THEN DataFile(1) ELSE DataFile(2)] }

\* the pattern "a()" with the replacement "\1" deletes every a of the stem
DelA == [Defaults EXCEPT !.regex_pattern = <<"a", "(", ")">>,
                         !.regex_replacement = <<"\\1">>]

\* the configurations of the specification of undo failures
ConfigsU == { Defaults, PrefixA, DelA, DelB }

(***************************************************************************)
(* rename_files                                                            *)
(***************************************************************************)
Raise(kind, msg) ==
    /\ pc' = "idle"
    /\ ret' = [NoRet EXCEPT !.status = kind, !.error = msg, !.dry_run = cfg'.dry_run, !.op = ops']
    /\ last' = "apply"
    /\ recent' = IF pc = "loop" /\ ~cfg.dry_run
                 THEN [ret |-> ret', undos |-> 0] ELSE recent

\* rename_files, lines 90-104: validate, collect, choose the backup and log
\* paths; at most max operations are started in a run
ApplyStartWithin(args, max) ==
    LET c == BulkRenameConfig(args)
        fs == _collect_files(dir, c.extensions)
    IN  /\ pc = "idle"
        /\ ops < max
        /\ ops' = ops + 1
        /\ cfg' = c
        /\ pre' = dir
        /\ preB' = backups
        /\ again' = (last = "apply" /\ ret.status = "ok" /\ c = cfg)
        /\ rename_records' = <<>>
        /\ cur' = NoRecord
        /\ UNCHANGED <<dir, backups, now, tick, undoRes, preU>>
        /\ IF validate(c) # "" \/ fs = <<>>
           THEN /\ Raise("ValueError",
                         IF validate(c) # "" THEN validate(c)
                         ELSE "No files found to rename.")
                /\ UNCHANGED <<files, idx, counter, backup_dir, log_file>>
           ELSE /\ pc' = "loop"
                /\ files' = fs
                /\ idx' = 1
                /\ counter' = c.numbering_start
                /\ backup_dir' = DefaultBackupDir(now)
                /\ log_file' = DefaultLogFile(now)
                /\ UNCHANGED <<ret, last, recent>>

\* a start that creates the backup directory before the loop
ApplyStartEager(args) ==
    LET c == BulkRenameConfig(args)
        fs == _collect_files(dir, c.extensions)
        enters == validate(c) = "" /\ fs # <<>>
    IN  /\ pc = "idle"
        /\ ops < MaxOps
        /\ ops' = ops + 1
        /\ cfg' = c
        /\ pre' = dir
        /\ preB' = backups
        /\ again' = (last = "apply" /\ ret.status = "ok" /\ c = cfg)
        /\ rename_records' = <<>>
        /\ cur' = NoRecord
        /\ UNCHANGED <<dir, now, undoRes, preU>>
        /\ IF enters /\ ~c.dry_run /\ DefaultBackupDir(now) \notin DOMAIN backups
           THEN /\ backups' = Put(backups, DefaultBackupDir(now),
                                  [mtime |-> tick + 1, files |-> EmptyMap,
                                   by |-> ops', used |-> {}])
                /\ tick' = tick + 1
           ELSE UNCHANGED <<backups, tick>>
        /\ IF ~enters
           THEN /\ Raise("ValueError",
                         IF validate(c) # "" THEN validate(c)
                         ELSE "No files found to rename.")
                /\ UNCHANGED <<files, idx, counter, backup_dir, log_file>>
           ELSE /\ pc' = "loop"
                /\ files' = fs
                /\ idx' = 1
                /\ counter' = c.numbering_start
                /\ backup_dir' = DefaultBackupDir(now)
                /\ log_file' = DefaultLogFile(now)
                /\ UNCHANGED <<ret, last, recent>>

\* rename_files called with the arguments args
ApplyStart(args) == ApplyStartWithin(args, MaxOps)

\* a loop step that stamps the record of an unchanged name as well
ApplyNextSkipStamped ==
    LET original_name == files[idx]
        built == _build_new_name(original_name, cfg, counter, now)
        record == [NoRecord EXCEPT !.original_name = original_name,
                                   !.new_name = built.name]
    IN  /\ pc = "loop"
        /\ idx <= Len(files)
        /\ UNCHANGED <<dir, backups, now, tick, cfg, files, backup_dir, log_file,
                       undoRes, pre, preB, again, preU, ops>>
        /\ IF built.err
           THEN /\ Raise("ValueError", built.error)
                /\ UNCHANGED <<idx, counter, rename_records, cur>>
           ELSE /\ counter' = IF cfg.numbering THEN counter + 1 ELSE counter
                /\ IF cfg.dry_run
                   THEN /\ rename_records' = Append(rename_records, record)
                        /\ idx' = idx + 1
                        /\ UNCHANGED <<pc, cur, ret, last, recent>>
                   ELSE IF SamePath(original_name, built.name)
                   THEN /\ rename_records' =
                              Append(rename_records,
                                     [record EXCEPT !.skipped = "Name unchanged.",
                                                    !.renamed_at = now])
                        /\ idx' = idx + 1
                        /\ UNCHANGED <<pc, cur, ret, last, recent>>
                   ELSE IF Exists(built.name)
                   THEN /\ Raise("FileExistsError", "Target file already exists")
                        /\ UNCHANGED <<idx, rename_records, cur>>
                   ELSE /\ pc' = "copy"
                        /\ cur' = record
                        /\ UNCHANGED <<idx, rename_records, ret, last, recent>>

\* rename_files, lines 106-132: name the next file, then dry-run, skip or conflict
ApplyNext ==
    LET original_name == files[idx]
        built == _build_new_name(original_name, cfg, counter, now)
        record == [NoRecord EXCEPT !.original_name = original_name,
                                   !.new_name = built.name]
    IN  /\ pc = "loop"
        /\ idx <= Len(files)
        /\ UNCHANGED <<dir, backups, now, tick, cfg, files, backup_dir, log_file,
                       undoRes, pre, preB, again, preU, ops>>
        /\ IF built.err
           THEN /\ Raise("ValueError", built.error)
                /\ UNCHANGED <<idx, counter, rename_records, cur>>
           ELSE /\ counter' = IF cfg.numbering THEN counter + 1 ELSE counter
                /\ IF cfg.dry_run
                   THEN /\ rename_records' = Append(rename_records, record)
                        /\ idx' = idx + 1
                        /\ UNCHANGED <<pc, cur, ret, last, recent>>
                   ELSE IF SamePath(original_name, built.name)
                   THEN /\ rename_records' =
                              Append(rename_records,
                                     [record EXCEPT !.skipped = "Name unchanged."])
                        /\ idx' = idx + 1
                        /\ UNCHANGED <<pc, cur, ret, last, recent>>
                   ELSE IF Exists(built.name)
                   THEN /\ Raise("FileExistsError", "Target file already exists")
                        /\ UNCHANGED <<idx, rename_records, cur>>
                   ELSE /\ pc' = "copy"
                        /\ cur' = record
                        /\ UNCHANGED <<idx, rename_records, ret, last, recent>>

\* rename_files, lines 134-136: create the backup directory, copy the file
ApplyCopy ==
    /\ pc = "copy"
    /\ backups' = BackupCopy(backups, backup_dir, cur.original_name,
                             dir[cur.original_name], tick + 1, ops)
    /\ tick' = tick + 1
    /\ pc' = "move"
    /\ UNCHANGED <<dir, now, cfg, files, idx, counter, rename_records, backup_dir,
                   log_file, cur, ret, undoRes, pre, preB, again, preU, last, recent, ops>>

\* the move without the renamed_at stamp on the record
ApplyMoveNoStamp ==
    /\ pc = "move"
    /\ dir' = Replaced(dir, cur.original_name, cur.new_name)
    /\ rename_records' = Append(rename_records, cur)
    /\ idx' = idx + 1
    /\ pc' = "loop"
    /\ cur' = NoRecord
    /\ UNCHANGED <<backups, now, tick, cfg, files, counter, backup_dir, log_file,
                   ret, undoRes, pre, preB, again, preU, last, recent, ops>>

\* a move that rewrites the log after every renamed file
ApplyMoveJournal ==
    /\ pc = "move"
    /\ rename_records' = Append(rename_records, [cur EXCEPT !.renamed_at = now])
    /\ dir' = _write_log(Replaced(dir, cur.original_name, cur.new_name), log_file,
                         rename_records', now, tick + 1, ops)
    /\ tick' = tick + 1
    /\ idx' = idx + 1
    /\ pc' = "loop"
    /\ cur' = NoRecord
    /\ UNCHANGED <<backups, now, cfg, files, counter, backup_dir, log_file,
                   ret, undoRes, pre, preB, again, preU, last, recent, ops>>

\* rename_files, lines 138-141: move the file, stamp and append the record
ApplyMove ==
    /\ pc = "move"
    /\ dir' = Replaced(dir, cur.original_name, cur.new_name)
    /\ rename_records' = Append(rename_records, [cur EXCEPT !.renamed_at = now])
    /\ idx' = idx + 1
    /\ pc' = "loop"
    /\ cur' = NoRecord
    /\ UNCHANGED <<backups, now, tick, cfg, files, counter, backup_dir, log_file,
                   ret, undoRes, pre, preB, again, preU, last, recent, ops>>

\* the end of rename_files without the dry-run test before _write_log
ApplyFinishAlwaysLog ==
    /\ pc = "loop"
    /\ idx > Len(files)
    /\ dir' = _write_log(dir, log_file, rename_records, now, tick + 1, ops)
    /\ tick' = tick + 1
    /\ ret' = [status |-> "ok",
               error |-> "",
               renamed_count |-> Len(rename_records),
               backup_dir |-> IF cfg.dry_run THEN <<>> ELSE backup_dir,
               log_file |-> IF cfg.dry_run THEN <<>> ELSE log_file,
               dry_run |-> cfg.dry_run,
               records |-> rename_records,
               op |-> ops]
    /\ pc' = "idle"
    /\ last' = "apply"
    /\ recent' = IF cfg.dry_run THEN recent ELSE [ret |-> ret', undos |-> 0]
    /\ UNCHANGED <<backups, now, cfg, files, idx, counter, rename_records,
                   backup_dir, log_file, cur, undoRes, pre, preB, again, preU, ops>>

\* rename_files, lines 143-152: write the log (not in a dry run) and return
ApplyFinish ==
    /\ pc = "loop"
    /\ idx > Len(files)
    /\ IF cfg.dry_run
       THEN UNCHANGED <<dir, tick>>
       ELSE /\ dir' = _write_log(dir, log_file, rename_records, now, tick + 1, ops)
            /\ tick' = tick + 1
    /\ ret' = [status |-> "ok",
               error |-> "",
               renamed_count |-> Len(rename_records),
               backup_dir |-> IF cfg.dry_run THEN <<>> ELSE backup_dir,
               log_file |-> IF cfg.dry_run THEN <<>> ELSE log_file,
               dry_run |-> cfg.dry_run,
               records |-> rename_records,
               op |-> ops]
    /\ pc' = "idle"
    /\ last' = "apply"
    /\ recent' = IF cfg.dry_run THEN recent ELSE [ret |-> ret', undos |-> 0]
    /\ UNCHANGED <<backups, now, cfg, files, idx, counter, rename_records,
                   backup_dir, log_file, cur, undoRes, pre, preB, again, preU, ops>>

\* a second of wall-clock time passes between two calls
Tick ==
    /\ pc = "idle"
    /\ now < MaxTime
    /\ now' = now + 1
    /\ UNCHANGED <<dir, backups, tick, pc, cfg, files, idx, counter,
                   rename_records, backup_dir, log_file, cur, ret, undoRes,
                   pre, preB, again, preU, last, recent, ops>>

(***************************************************************************)
(* undo_rename                                                             *)
(***************************************************************************)
\* the sort without reverse=True: the oldest entries come first
Earliest(m) == {n \in DOMAIN m : \A o \in DOMAIN m : m[n].mtime <= m[o].mtime}

\* the entries of a map with the most recent modification time: the head of
\* sort(key=os.path.getmtime, reverse=True)
Latest(m) == {n \in DOMAIN m : \A o \in DOMAIN m : m[o].mtime <= m[n].mtime}

\* find_latest_log: the candidates of glob "rename_log_*.json"
LogCandidates(d) == [n \in {x \in DOMAIN d : IsLogName(x)} |-> d[n]]

\* a restore that does not look at the 'skipped' mark of the record
UndoRecordIgnoresSkipped(st, record, bfiles, bk) ==
    LET original_name == record.original_name
        new_name == record.new_name
        here == st.fault.at = Len(st.details) + 1
        skip(status) ==
            [st EXCEPT !.skipped = @ + 1,
                       !.details = Append(@, [original_name |-> original_name,
                                              status |-> status])]
        copied == Put(st.d, original_name, bfiles[original_name])
    IN  IF original_name \notin DOMAIN bfiles THEN skip("Backup file not found")
        ELSE IF ~(new_name \in DOMAIN st.d \/ new_name \in DOMAIN bk)
             THEN skip("Current file missing")
        ELSE IF here /\ st.fault.op = "copy" THEN skip("Error")
        ELSE IF /\ new_name # original_name
                /\ new_name \in DOMAIN bk \/ (here /\ st.fault.op = "remove")
             THEN [skip("Error") EXCEPT !.d = copied]
        ELSE [st EXCEPT !.d = IF new_name # original_name
                              THEN Del(copied, new_name) ELSE copied,
                        !.restored = @ + 1,
                        !.details = Append(@, [original_name |-> original_name,
                                               status |-> "Restored successfully"])]

\* a restore without the test that the renamed file is still there
UndoRecordNoCurrentCheck(st, record, bfiles, bk) ==
    LET original_name == record.original_name
        new_name == record.new_name
        here == st.fault.at = Len(st.details) + 1
        skip(status) ==
            [st EXCEPT !.skipped = @ + 1,
                       !.details = Append(@, [original_name |-> original_name,
                                              status |-> status])]
        copied == Put(st.d, original_name, bfiles[original_name])
    IN  IF record.skipped # "" THEN skip("Skipped (was not renamed)")
        ELSE IF original_name \notin DOMAIN bfiles THEN skip("Backup file not found")
        ELSE IF here /\ st.fault.op = "copy" THEN skip("Error")
        ELSE IF /\ new_name # original_name
                /\ new_name \in DOMAIN bk \/ (here /\ st.fault.op = "remove")
             THEN [skip("Error") EXCEPT !.d = copied]
        ELSE [st EXCEPT !.d = IF new_name # original_name /\ new_name \in DOMAIN copied
                              THEN Del(copied, new_name) ELSE copied,
                        !.restored = @ + 1,
                        !.details = Append(@, [original_name |-> original_name,
                                               status |-> "Restored successfully"])]

\* a restore whose exception handler does not count the record
UndoRecordErrorUncounted(st, record, bfiles, bk) ==
    LET original_name == record.original_name
        new_name == record.new_name
        here == st.fault.at = Len(st.details) + 1
        skip(status) ==
            [st EXCEPT !.skipped = @ + 1,
                       !.details = Append(@, [original_name |-> original_name,
                                              status |-> status])]
        error == [st EXCEPT !.details = Append(@, [original_name |-> original_name,
                                                   status |-> "Error"])]
        copied == Put(st.d, original_name, bfiles[original_name])
    IN  IF record.skipped # "" THEN skip("Skipped (was not renamed)")
        ELSE IF original_name \notin DOMAIN bfiles THEN skip("Backup file not found")
        ELSE IF ~(new_name \in DOMAIN st.d \/ new_name \in DOMAIN bk)
             THEN skip("Current file missing")
        ELSE IF here /\ st.fault.op = "copy" THEN error
        ELSE IF /\ new_name # original_name
                /\ new_name \in DOMAIN bk \/ (here /\ st.fault.op = "remove")
             THEN [error EXCEPT !.d = copied]
        ELSE [st EXCEPT !.d = IF new_name # original_name
                              THEN Del(copied, new_name) ELSE copied,
                        !.restored = @ + 1,
                        !.details = Append(@, [original_name |-> original_name,
                                               status |-> "Restored successfully"])]

\* undo_rename, lines 137-185: one record of the log, applied to the
\* running state st = [d, restored, skipped, details, fault].  original_path
\* is taken to name no directory (no file name of the model starts with
\* backup_, see NamesDisjoint); os.remove of a directory raises, after the
\* copy has been made.
UndoRecord(st, record, bfiles, bk) ==
    LET original_name == record.original_name
        new_name == record.new_name
        here == st.fault.at = Len(st.details) + 1
        skip(status) ==
            [st EXCEPT !.skipped = @ + 1,
                       !.details = Append(@, [original_name |-> original_name,
                                              status |-> status])]
        copied == Put(st.d, original_name, bfiles[original_name])
    IN  IF record.skipped # "" THEN skip("Skipped (was not renamed)")
        ELSE IF original_name \notin DOMAIN bfiles THEN skip("Backup file not found")
        ELSE IF ~(new_name \in DOMAIN st.d \/ new_name \in DOMAIN bk)
             THEN skip("Current file missing")
        ELSE IF here /\ st.fault.op = "copy" THEN skip("Error")
        ELSE IF /\ new_name # original_name
                /\ new_name \in DOMAIN bk \/ (here /\ st.fault.op = "remove")
             THEN [skip("Error") EXCEPT !.d = copied]
        ELSE [st EXCEPT !.d = IF new_name # original_name
                              THEN Del(copied, new_name) ELSE copied,
                        !.restored = @ + 1,
                        !.details = Append(@, [original_name |-> original_name,
                                               status |-> "Restored successfully"])]

\* the loop leaves after its first record
UndoLoopFirstOnly(st, records, bfiles, bk) ==
    IF records = <<>> THEN st ELSE UndoRecord(st, Head(records), bfiles, bk)

RECURSIVE UndoLoop(_, _, _, _)
UndoLoop(st, records, bfiles, bk) ==
    IF records = <<>> THEN st
    ELSE UndoLoop(UndoRecord(st, Head(records), bfiles, bk), Tail(records), bfiles, bk)

\* a result that reports success whenever the loop has run
UndoCountsAlwaysSuccess(st, lg, bd) ==
    [success |-> TRUE,
     restored_count |-> st.restored,
     skipped_count |-> st.skipped,
     error_message |-> "",
     log_file |-> lg,
     backup_dir |-> bd,
     details |-> st.details,
     raised |-> ""]

\* undo_rename, lines 187-194: the counts, success and the aggregate message
UndoCounts(st, lg, bd) ==
    [success |-> st.restored > 0,
     restored_count |-> st.restored,
     skipped_count |-> st.skipped,
     error_message |->
         IF st.restored = 0
         THEN "No files could be restored. Check backup directory."
         ELSE "",
     log_file |-> lg,
     backup_dir |-> bd,
     details |-> st.details,
     raised |-> ""]

\* undo_rename(directory) with no explicit log, lines 74-194, given the log
\* and the backup directory that the two sorts put first; lg = <<>> when
\* no log is found, bd = <<>> when no backup directory is found.
\* load_rename_log (lines 48-53) catches FileNotFoundError and
\* JSONDecodeError only: the UnicodeDecodeError of a file that is no UTF-8
\* text leaves undo_rename as an exception.
undo_rename(d, bk, lg, bd, fault) ==
    LET fail(msg, l, b) ==
            [d |-> d, res |-> [NoUndo EXCEPT !.error_message = msg,
                                             !.log_file = l, !.backup_dir = b]]
        renamed_files == d[lg].recs
        st == UndoLoop([d |-> d, restored |-> 0, skipped |-> 0, details |-> <<>>,
                        fault |-> fault],
                       renamed_files, bk[bd].files, bk)
    IN  IF lg = <<>> THEN fail("No rename log files found in directory.", <<>>, <<>>)
        ELSE IF d[lg].kind = "binary"
             THEN [d |-> d, res |-> [NoUndo EXCEPT !.raised = "UnicodeDecodeError"]]
        ELSE IF d[lg].kind # "log" THEN fail("Failed to read log file", lg, <<>>)
        ELSE IF renamed_files = <<>>
             THEN fail("Log file contains no rename records.", lg, <<>>)
        ELSE IF renamed_files[1].original_name = <<>>
             THEN fail("Log file format invalid (missing original_path).", lg, <<>>)
        ELSE IF bd = <<>> THEN fail("No backup directories found", lg, <<>>)
        ELSE [d |-> st.d, res |-> UndoCounts(st, lg, bd)]

\* the exceptions that the operating system may raise in the restore steps
\* of one undo of log lg: at most one, at any record, in the copy or in the
\* removal
Faults(d, lg) ==
    IF lg = <<>> \/ d[lg].kind # "log" THEN {}
    ELSE {[at |-> k, op |-> o] : k \in 1..Len(d[lg].recs), o \in {"copy", "remove"}}

\* one call of undo_rename(directory); faulty: an exception of the
\* operating system meets one of its restore steps; at most max operations
\* are started in a run
UndoCallWithin(faulty, max) ==
    /\ pc = "idle"
    /\ ops < max
    /\ ops' = ops + 1
    /\ \E lg \in (IF LogCandidates(dir) = EmptyMap THEN {<<>>}
                  ELSE Latest(LogCandidates(dir))) :
       \E bd \in (IF backups = EmptyMap THEN {<<>>} ELSE Latest(backups)) :
       \E fault \in (IF faulty THEN Faults(dir, lg) ELSE {NoFault}) :
          LET out == undo_rename(dir, backups, lg, bd, fault)
          IN  /\ dir' = out.d
              /\ undoRes' = out.res
              /\ preU' = [dir |-> dir, backups |-> backups, last |-> last,
                          fault |-> fault, lg |-> lg, bd |-> bd]
    /\ last' = "undo"
    /\ recent' = [recent EXCEPT !.undos = @ + 1]
    /\ UNCHANGED <<backups, now, tick, pc, cfg, files, idx, counter,
                   rename_records, backup_dir, log_file, cur, ret, pre, preB, again>>

UndoCall(faulty) == UndoCallWithin(faulty, MaxOps)

\* undo_rename(directory), every filesystem call succeeding
Undo == UndoCall(FALSE)

\* undo_rename(directory), one restore step raising
UndoFault == UndoCall(TRUE)

InitN ==
    /\ dir \in InitDirsN
    /\ backups = EmptyMap
    /\ now = 1
    /\ tick = 0
    /\ pc = "idle"
    /\ cfg = NoConfig
    /\ files = <<>>
    /\ idx = 1
    /\ counter = 0
    /\ rename_records = <<>>
    /\ backup_dir = <<>>
    /\ log_file = <<>>
    /\ cur = NoRecord
    /\ ret = NoRet
    /\ undoRes = NoUndo
    /\ pre = EmptyMap
    /\ preB = EmptyMap
    /\ again = FALSE
    /\ preU = NoSnapshot
    /\ last = "none"
    /\ recent = [ret |-> NoRet, undos |-> 0]
    /\ ops = 0

InitU ==
    /\ dir \in InitDirsU
    /\ backups = EmptyMap
    /\ now = 1
    /\ tick = 0
    /\ pc = "idle"
    /\ cfg = NoConfig
    /\ files = <<>>
    /\ idx = 1
    /\ counter = 0
    /\ rename_records = <<>>
    /\ backup_dir = <<>>
    /\ log_file = <<>>
    /\ cur = NoRecord
    /\ ret = NoRet
    /\ undoRes = NoUndo
    /\ pre = EmptyMap
    /\ preB = EmptyMap
    /\ again = FALSE
    /\ preU = NoSnapshot
    /\ last = "none"
    /\ recent = [ret |-> NoRet, undos |-> 0]
    /\ ops = 0

Init ==
    /\ dir \in InitDirs
    /\ backups = EmptyMap
    /\ now = 1
    /\ tick = 0
    /\ pc = "idle"
    /\ cfg = NoConfig
    /\ files = <<>>
    /\ idx = 1
    /\ counter = 0
    /\ rename_records = <<>>
    /\ backup_dir = <<>>
    /\ log_file = <<>>
    /\ cur = NoRecord
    /\ ret = NoRet
    /\ undoRes = NoUndo
    /\ pre = EmptyMap
    /\ preB = EmptyMap
    /\ again = FALSE
    /\ preU = NoSnapshot
    /\ last = "none"
    /\ recent = [ret |-> NoRet, undos |-> 0]
    /\ ops = 0

Next ==
    \/ \E args \in Configs : ApplyStart(args)
    \/ ApplyNext
    \/ ApplyCopy
    \/ ApplyMove
    \/ ApplyFinish
    \/ Undo
    \/ Tick

Spec == Init /\ [][Next]_vars

\* the same operations, called with the configurations of ConfigsV
NextV ==
    \/ \E args \in ConfigsV : ApplyStart(args)
    \/ ApplyNext
    \/ ApplyCopy
    \/ ApplyMove
    \/ ApplyFinish
    \/ Undo
    \/ Tick

SpecV == Init /\ [][NextV]_vars

\* the same operations on the directory of InitN, called with ConfigsN
NextN ==
    \/ \E args \in ConfigsN : ApplyStart(args)
    \/ ApplyNext
    \/ ApplyCopy
    \/ ApplyMove
    \/ ApplyFinish
    \/ Undo
    \/ Tick

SpecN == InitN /\ [][NextN]_vars

\* the operations on the directories of InitU, called with ConfigsU, with
\* undo_rename meeting exceptions of the operating system
NextU ==
    \/ \E args \in ConfigsU : ApplyStart(args)
    \/ ApplyNext
    \/ ApplyCopy
    \/ ApplyMove
    \/ ApplyFinish
    \/ Undo
    \/ UndoFault
    \/ Tick

SpecU == InitU /\ [][NextU]_vars

InitL ==
    /\ dir \in InitDirsL
    /\ backups = EmptyMap
    /\ now = 1
    /\ tick = 0
    /\ pc = "idle"
    /\ cfg = NoConfig
    /\ files = <<>>
    /\ idx = 1
    /\ counter = 0
    /\ rename_records = <<>>
    /\ backup_dir = <<>>
    /\ log_file = <<>>
    /\ cur = NoRecord
    /\ ret = NoRet
    /\ undoRes = NoUndo
    /\ pre = EmptyMap
    /\ preB = EmptyMap
    /\ again = FALSE
    /\ preU = NoSnapshot
    /\ last = "none"
    /\ recent = [ret |-> NoRet, undos |-> 0]
    /\ ops = 0

\* the same operations in runs of up to MaxOpsLong calls on the directory
\* of InitL, called with ConfigsL
NextL ==
    \/ \E args \in ConfigsL : ApplyStartWithin(args, MaxOpsLong)
    \/ ApplyNext
    \/ ApplyCopy
    \/ ApplyMove
    \/ ApplyFinish
    \/ UndoCallWithin(FALSE, MaxOpsLong)
    \/ Tick

SpecL == InitL /\ [][NextL]_vars

TypeOK ==
    /\ pc \in {"idle", "loop", "copy", "move"}
    /\ now \in 1..MaxTime
    /\ ops \in 0..Max(MaxOps, MaxOpsLong)

\* no regular file of the directory has the name of a backup directory
NamesDisjoint ==
    /\ (DOMAIN dir) \cap (DOMAIN backups) = {}
    /\ \A n \in DOMAIN dir : ~IsBackupName(n)
    /\ \A n \in DOMAIN backups : IsBackupName(n)

(***************************************************************************)
(* Properties                                                              *)
(***************************************************************************)
\* rename_files has returned or raised and nothing has run since
ApplyDone == pc = "idle" /\ last = "apply"

\* the last operation is a non-dry-run rename_files that returned
ApplyCompleted == ApplyDone /\ ret.status = "ok" /\ ~ret.dry_run

\* undo_rename has just run, directly after a non-dry-run rename_files that returned
UndoAfterApply ==
    /\ pc = "idle"
    /\ last = "undo"
    /\ preU.last = "apply"
    /\ ret.status = "ok"
    /\ ~ret.dry_run

Renamed(records) == {i \in 1..Len(records) : records[i].renamed_at # 0}

SkippedRecs(records) == {i \in 1..Len(records) : records[i].skipped # ""}

\* C1: round trip - after a completed non-dry-run apply directly followed by
\* undo_rename, every file of a record without 'skipped' exists again under
\* its pre-apply name with its pre-apply content.
C1_RoundTrip ==
    UndoAfterApply =>
        \A i \in 1..Len(ret.records) :
            LET r == ret.records[i]
            IN  r.skipped = "" =>
                    /\ r.original_name \in DOMAIN dir
                    /\ Content(dir[r.original_name]) = Content(pre[r.original_name])

C3_BackupPrecedesMove ==
    (pc # "idle" /\ ~cfg.dry_run) =>
        /\ \A i \in Renamed(rename_records) :
              LET r == rename_records[i]
              IN  /\ r.new_name \in DOMAIN dir
                  /\ backup_dir \in DOMAIN backups
                  /\ r.original_name \in DOMAIN backups[backup_dir].files
                  /\ Content(backups[backup_dir].files[r.original_name])
                        = Content(pre[r.original_name])
                  /\ Content(dir[r.new_name]) = Content(pre[r.original_name])
        /\ pc = "move" =>
              /\ backup_dir \in DOMAIN backups
              /\ cur.original_name \in DOMAIN backups[backup_dir].files
              /\ backups[backup_dir].files[cur.original_name] = dir[cur.original_name]

C3_Witness ==
    /\ pc = "move"
    /\ ~cfg.dry_run
    /\ Renamed(rename_records) # {}
    /\ backup_dir \in DOMAIN preB

\* the name a file of the directory has after the records so far
FinalName(n) ==
    IF \E i \in Renamed(rename_records) : rename_records[i].original_name = n
    THEN rename_records[CHOOSE i \in Renamed(rename_records) :
                            rename_records[i].original_name = n].new_name
    ELSE n

\* the content that file n had before the apply is in the directory under
\* its original name or its computed new name
Kept(n) ==
    /\ FinalName(n) \in DOMAIN dir
    /\ Content(dir[FinalName(n)]) = Content(pre[n])

ConflictAhead ==
    /\ pc = "loop"
    /\ idx <= Len(files)
    /\ ~cfg.dry_run
    /\ LET built == _build_new_name(files[idx], cfg, counter, now)
       IN  /\ ~built.err
           /\ built.name # files[idx]
           /\ built.name \in DOMAIN dir

\* C5: when a file already exists at a record's destination, the apply fails
\* at once with FileExistsError; the files renamed earlier in the batch stay
\* renamed and the conflicting record and all later ones stay untouched
\* under their original names.
C5_Conflict ==
    [][(ConflictAhead /\ now' = now) =>
          /\ pc' = "idle"
          /\ ret'.status = "FileExistsError"
          /\ dir' = dir
          /\ backups' = backups
          /\ \A i \in Renamed(rename_records) :
                LET r == rename_records[i]
                IN  /\ r.new_name \in DOMAIN dir'
                    /\ Content(dir'[r.new_name]) = Content(pre[r.original_name])
                    /\ r.original_name \notin DOMAIN dir'
          /\ \A j \in idx..Len(files) :
                /\ files[j] \in DOMAIN dir'
                /\ dir'[files[j]] = pre[files[j]]]_vars

C5_Witness ==
    /\ ApplyDone
    /\ ret.status = "FileExistsError"
    /\ Renamed(rename_records) # {}
    /\ idx < Len(files)

\* C6 as stated: whenever apply fails with a ValueError raised by the name
\* computation (invalid regex, empty stem), no I/O has been performed - no
\* file renamed, no backup directory or copy created, no log written.
C6_NoIOOnNameError ==
    (/\ ApplyDone
     /\ ret.status = "ValueError"
     /\ ret.error \in {"Invalid regex pattern", "Regex produced an empty file name"})
    => (dir = pre /\ backups = preB)

\* the files of directory d that pass the extension allow-list
Matching(d, extensions) ==
    {n \in DOMAIN d :
        extensions = <<>>
        \/ \E i \in 1..Len(extensions) : Lower(SplitExt(n).ext) = extensions[i]}

\* the cases of C7: directory missing or not a directory, numbering with a
\* negative start or padding, one of pattern / replacement without the other,
\* no matching file
Rejected(c, d) ==
    \/ c.directory # "D"
    \/ c.numbering /\ (c.numbering_start < 0 \/ c.numbering_padding < 0)
    \/ (c.regex_pattern = <<>>) # (c.regex_replacement = <<>>)
    \/ Matching(d, c.extensions) = {}

\* rename_files is running, or has ended and nothing has run since
ApplyCalled == pc # "idle" \/ last = "apply"

\* C7: fail-fast validation - in each of these cases rename_files raises an
\* error without entering its loop and the filesystem is unchanged.
C7_FailFast ==
    (ApplyCalled /\ Rejected(cfg, pre)) =>
        /\ pc = "idle"
        /\ ret.status = "ValueError"
        /\ dir = pre
        /\ backups = preB

C7_Witness ==
    /\ ApplyDone
    /\ cfg.directory = "D"
    /\ cfg.regex_pattern # <<>>
    /\ cfg.regex_replacement = <<>>
    /\ ret.status = "ValueError"
    /\ backups # EmptyMap

\* C8: dry run - nothing changes on the filesystem, backup_dir and log_file
\* are reported absent, there is one record per matching file, and
\* FileExistsError is never raised.
C8_DryRun ==
    (ApplyCalled /\ cfg.dry_run) =>
        /\ dir = pre
        /\ backups = preB
        /\ pc = "idle" =>
              /\ ret.status # "FileExistsError"
              /\ ret.status = "ok" =>
                    /\ ret.backup_dir = <<>>
                    /\ ret.log_file = <<>>
                    /\ ret.dry_run
                    /\ Len(ret.records) = Cardinality(Matching(pre, cfg.extensions))
                    /\ \A n \in Matching(pre, cfg.extensions) :
                          \E i \in 1..Len(ret.records) : ret.records[i].original_name = n

C8_Witness ==
    /\ ApplyDone
    /\ cfg.dry_run
    /\ ret.status = "ok"
    /\ \E i \in 1..Len(ret.records) :
          /\ ret.records[i].new_name # ret.records[i].original_name
          /\ ret.records[i].new_name \in DOMAIN dir

\* this undo is the first one after a non-dry-run apply that returned, with
\* nothing but dry runs and rejected calls in between
FirstUndoAfterCompleted ==
    /\ pc = "idle"
    /\ last = "undo"
    /\ recent.ret.status = "ok"
    /\ recent.undos = 1

SkipAhead ==
    /\ pc = "loop"
    /\ idx <= Len(files)
    /\ ~cfg.dry_run
    /\ LET built == _build_new_name(files[idx], cfg, counter, now)
       IN  ~built.err /\ built.name = files[idx]

\* C10: in a non-dry-run apply a record whose new path equals its original
\* path is marked 'skipped', its file is neither backed up nor moved, the
\* loop goes on with the next record, and the record is in the written log.
C10_Skip ==
    /\ [][(SkipAhead /\ now' = now) =>
             /\ pc' = "loop"
             /\ idx' = idx + 1
             /\ dir' = dir
             /\ backups' = backups
             /\ rename_records' =
                   Append(rename_records,
                          [original_name |-> files[idx], new_name |-> files[idx],
                           skipped |-> "Name unchanged.", renamed_at |-> 0])]_vars
    /\ [](ApplyCompleted =>
             /\ ret.log_file \in DOMAIN dir
             /\ dir[ret.log_file].kind = "log"
             /\ \A i \in SkippedRecs(ret.records) :
                   /\ i <= Len(dir[ret.log_file].recs)
                   /\ dir[ret.log_file].recs[i] = ret.records[i])

C10_Witness ==
    /\ ApplyCompleted
    /\ \E i \in SkippedRecs(ret.records) :
          /\ \E j \in Renamed(ret.records) : i < j
          /\ ret.records[i].original_name \in DOMAIN dir
          /\ dir[ret.records[i].original_name] = pre[ret.records[i].original_name]

\* C11: log completeness and order - after a completed non-dry-run apply the
\* log file holds exactly one record per discovered file, in sorted order of
\* the original names, and its record sequence is the 'records' sequence
\* that the apply returned.
C11_LogComplete ==
    ApplyCompleted =>
        /\ ret.log_file \in DOMAIN dir
        /\ dir[ret.log_file].kind = "log"
        /\ dir[ret.log_file].recs = ret.records
        /\ Len(ret.records) = Cardinality(Matching(pre, cfg.extensions))
        /\ \A n \in Matching(pre, cfg.extensions) :
              \E i \in 1..Len(ret.records) : ret.records[i].original_name = n
        /\ \A i, j \in 1..Len(ret.records) :
              i < j => StrLess(ret.records[i].original_name,
                               ret.records[j].original_name)

C11_Witness ==
    /\ ApplyCompleted
    /\ Len(ret.records) >= 3
    /\ SkippedRecs(ret.records) # {}
    /\ Renamed(ret.records) # {}
    /\ \E i \in 1..Len(ret.records) : IsLogName(ret.records[i].original_name)

\* the second of two identical calls in direct succession is running or has ended
SecondApply == again /\ ~cfg.dry_run /\ ApplyCalled

\* C12 as stated: when the same configuration is applied twice in direct
\* succession, every record of the second apply is 'skipped' with its
\* computed name equal to its current name (or the apply raises); the second
\* apply renames no file.
C12_SecondApplySkips ==
    SecondApply =>
        \A i \in 1..Len(rename_records) :
            /\ rename_records[i].skipped # ""
            /\ rename_records[i].new_name = rename_records[i].original_name

\* C12 amended: every record of the second apply is either 'skipped', its
\* computed name being its current name and its file left in place, or
\* renamed again, its computed name being a different, free name to which
\* the file has been moved; the apply raises FileExistsError only for a
\* computed name that differs from the current name and is taken.
C12_SecondApply ==
    SecondApply =>
        /\ \A i \in 1..Len(rename_records) :
              LET r == rename_records[i]
              IN  \/ /\ r.skipped # ""
                     /\ r.renamed_at = 0
                     /\ r.new_name = r.original_name
                     /\ r.original_name \in DOMAIN dir
                     /\ \/ dir[r.original_name] = pre[r.original_name]
                        \/ ApplyCompleted /\ r.original_name = ret.log_file
                  \/ /\ r.skipped = ""
                     /\ r.renamed_at # 0
                     /\ r.new_name # r.original_name
                     /\ r.new_name \in DOMAIN dir
                     /\ \/ dir[r.new_name] = pre[r.original_name]
                        \/ ApplyCompleted /\ r.new_name = ret.log_file
                     /\ \/ r.new_name \notin DOMAIN pre
                        \/ \E j \in 1..(i - 1) :
                              /\ rename_records[j].original_name = r.new_name
                              /\ rename_records[j].renamed_at # 0
        /\ (pc = "idle" /\ ret.status = "FileExistsError") =>
              LET built == _build_new_name(files[idx], cfg, counter, now)
              IN  /\ built.name # files[idx]
                  /\ Exists(built.name)

C12_Witness ==
    /\ SecondApply
    /\ ApplyCompleted
    /\ \E n \in DOMAIN pre :
          /\ pre[n].kind = "log"
          /\ pre[n].by = ret.op - 1
          /\ \E j \in Renamed(pre[n].recs) :
                \E i \in Renamed(ret.records) :
                    ret.records[i].original_name = pre[n].recs[j].new_name

\* the number of the k-th file (k from 0), padded on the left with zeros
ExpectedNumber(c, k) == Zfill(Str(c.numbering_start + k), c.numbering_padding)

\* the timestamp appended at wall-clock time t, "" when timestamps are off
ExpectedStamp(c, t) ==
    IF c.timestamp THEN Replace(Strftime(c.timestamp_format, t), " ", <<"_">>)
    ELSE <<>>

\* C13: numbering - while an apply with numbering runs, the record of the
\* k-th file of the sorted list (k from 0) has a stem that ends with the number
\* numbering_start + k, zero-padded to numbering_padding digits and never
\* truncated (followed by the timestamp, if enabled), and the counter has
\* advanced once for every file taken up so far, skipped ones included.
C13_Numbering ==
    (pc # "idle" /\ cfg.numbering) =>
        /\ counter = cfg.numbering_start + Len(rename_records)
                        + (IF pc \in {"copy", "move"} THEN 1 ELSE 0)
        /\ \A i \in 1..Len(rename_records) :
              LET r    == rename_records[i]
                  stem == SplitExt(r.new_name).stem
                  tail == ExpectedNumber(cfg, i - 1) \o ExpectedStamp(cfg, now)
              IN  /\ r.original_name = files[i]
                  /\ EndsWith(stem, tail)
                  /\ cfg.regex_pattern = <<>> =>
                        Len(stem) = Len(SplitExt(files[i]).stem) + Len(cfg.prefix)
                                      + Len(cfg.suffix) + Len(tail)

C13_Witness ==
    /\ pc = "loop"
    /\ idx > Len(files)
    /\ cfg.numbering
    /\ ~cfg.dry_run
    /\ \E i \in SkippedRecs(rename_records) :
          \E j \in Renamed(rename_records) : i < j

\* the stem after the substitution, the stem itself when no regex is configured
Substituted(c, stem) ==
    IF c.regex_pattern # <<>> /\ c.regex_replacement # <<>>
    THEN ReSub(c.regex_pattern, c.regex_replacement, stem)
    ELSE stem

\* C14: name computation - every record's new name is the prefix, then the
\* stem with the regex substitution applied, then the suffix, then the number,
\* then the timestamp, then the original extension; an option that is not
\* configured adds nothing at its place.
C14_NameOrder ==
    pc # "idle" =>
        \A i \in 1..Len(rename_records) :
            LET r     == rename_records[i]
                parts == SplitExt(r.original_name)
            IN  r.new_name =
                    cfg.prefix
                    \o Substituted(cfg, parts.stem)
                    \o cfg.suffix
                    \o (IF cfg.numbering THEN ExpectedNumber(cfg, i - 1) ELSE <<>>)
                    \o ExpectedStamp(cfg, now)
                    \o parts.ext

C14_Witness ==
    /\ pc = "loop"
    /\ idx > Len(files)
    /\ cfg.regex_pattern # <<>>
    /\ cfg.prefix # <<>>
    /\ cfg.suffix # <<>>
    /\ cfg.numbering
    /\ cfg.timestamp
    /\ now > 1
    /\ \E i \in Renamed(rename_records) :
          LET stem == SplitExt(rename_records[i].original_name).stem
          IN  Substituted(cfg, stem) # stem

\* a dry run is about to return its records
PlanReturns == pc = "loop" /\ pc' = "idle" /\ cfg.dry_run /\ ret'.status = "ok"

\* C15: plan determinism - a dry run with timestamps disabled returns one
\* record per matching file, in sorted order of the paths, and a second dry
\* run with the same configuration directly after it, on the unchanged
\* directory, returns the same record sequence.
C15_PlanDeterministic ==
    [][(PlanReturns /\ ~cfg.timestamp) =>
          /\ Len(ret'.records) = Cardinality(Matching(dir, cfg.extensions))
          /\ \A n \in Matching(dir, cfg.extensions) :
                \E i \in 1..Len(ret'.records) : ret'.records[i].original_name = n
          /\ \A i, j \in 1..Len(ret'.records) :
                i < j => StrLess(ret'.records[i].original_name,
                                 ret'.records[j].original_name)
          /\ again => (dir = pre /\ ret'.records = ret.records)]_vars

C15_Witness ==
    /\ ApplyDone
    /\ again
    /\ cfg.dry_run
    /\ ~cfg.timestamp
    /\ ret.status = "ok"
    /\ Len(ret.records) >= 4
    /\ now > 1

\* the same without the exclusion of timestamps
C15_WithTimestamps ==
    [][(PlanReturns /\ again) => ret'.records = ret.records]_vars

\* the files put into a backup directory, or replaced there, since the
\* apply started
NewBackups ==
    {n \in UNION {DOMAIN backups[b].files : b \in DOMAIN backups} :
        \E b \in DOMAIN backups :
            /\ n \in DOMAIN backups[b].files
            /\ \/ b \notin DOMAIN preB
               \/ n \notin DOMAIN preB[b].files
               \/ backups[b].files[n] # preB[b].files[n]}

\* C16: extension filter - with an allow-list set, its entries are in lower
\* case with a leading dot, the records are exactly the regular files of
\* the directory whose extension in lower case is an entry, and the files
\* with other extensions and the sub-directories are not renamed, backed
\* up or logged.
C16_ExtensionFilter ==
    (ApplyCalled /\ cfg.directory = "D" /\ cfg.extensions # <<>>) =>
        LET allowed == {cfg.extensions[i] : i \in 1..Len(cfg.extensions)}
            match   == {n \in DOMAIN pre : Lower(SplitExt(n).ext) \in allowed}
            logged  == {rename_records[i].original_name : i \in 1..Len(rename_records)}
        IN  /\ \A e \in allowed : e[1] = "." /\ Lower(e) = e
            /\ logged \subseteq match
            /\ (pc = "idle" /\ ret.status = "ok") =>
                  /\ logged = match
                  /\ Len(ret.records) = Cardinality(match)
            /\ NewBackups \subseteq match
            /\ \A n \in (DOMAIN pre) \ match :
                  /\ n \in DOMAIN dir
                  /\ \/ dir[n] = pre[n]
                     \/ ApplyCompleted /\ n = ret.log_file
            /\ \A b \in DOMAIN preB : b \in DOMAIN backups /\ b \notin logged

C16_Witness ==
    /\ ApplyCompleted
    /\ cfg.extensions # <<>>
    /\ preB # EmptyMap
    /\ \E i \in Renamed(ret.records) :
          LET ext == SplitExt(ret.records[i].original_name).ext
          IN  Lower(ext) # ext
    /\ \E n \in DOMAIN pre :
          /\ \A i \in 1..Len(ret.records) : ret.records[i].original_name # n
          /\ n \in DOMAIN dir
          /\ dir[n] = pre[n]

\* undo_rename has returned or raised and nothing has run since
UndoDone == pc = "idle" /\ last = "undo"

\* the cases of C17: no log found, the log unreadable, without records or
\* without original_path in its first record, no backup directory found
DiscoveryFails ==
    \/ preU.lg = <<>>
    \/ preU.dir[preU.lg].kind # "log"
    \/ preU.dir[preU.lg].recs = <<>>
    \/ preU.dir[preU.lg].recs[1].original_name = <<>>
    \/ preU.bd = <<>>

\* undo_rename has returned a failure and has changed nothing
FailsCleanly ==
    /\ undoRes.raised = ""
    /\ ~undoRes.success
    /\ undoRes.error_message # ""
    /\ undoRes.restored_count = 0
    /\ undoRes.details = <<>>
    /\ dir = preU.dir
    /\ backups = preU.backups

\* C17 as stated: undo discovery failure - in each of these cases
\* undo_rename returns success = false with an error message, restored_count
\* 0 and no details, and the filesystem is unchanged.
C17_DiscoveryFailure == (UndoDone /\ DiscoveryFails) => FailsCleanly

\* the same for the logs that can be decoded as text
C17_TextLogs ==
    (/\ UndoDone
     /\ DiscoveryFails
     /\ preU.lg # <<>> => preU.dir[preU.lg].kind # "binary")
    => FailsCleanly

\* undo_rename has returned a result
UndoReturned == UndoDone /\ undoRes.raised = ""

\* C18: undo outcome - whenever undo_rename returns, success is true exactly
\* when restored_count > 0, an error message is set when restored_count is
\* 0, and the error message is empty when restored_count > 0.
C18_Outcome ==
    UndoReturned =>
        /\ undoRes.success <=> undoRes.restored_count > 0
        /\ undoRes.restored_count = 0 => undoRes.error_message # ""
        /\ undoRes.restored_count > 0 => undoRes.error_message = ""

C18_Witness ==
    /\ UndoReturned
    /\ undoRes.restored_count = 0
    /\ undoRes.skipped_count >= 2
    /\ Len(undoRes.details) >= 2
    /\ \E i \in 1..Len(undoRes.details) :
          undoRes.details[i].status # "Skipped (was not renamed)"

\* undo_rename has run its loop over the records of the log it found
UndoLooped == UndoReturned /\ undoRes.backup_dir # <<>>

UndoRecs == preU.dir[preU.lg].recs

UndoBackupFiles == preU.backups[preU.bd].files

\* the running state of that undo after its first i records
UndoStateAfter(i) ==
    UndoLoop([d |-> preU.dir, restored |-> 0, skipped |-> 0, details |-> <<>>,
              fault |-> preU.fault],
             SubSeq(UndoRecs, 1, i), UndoBackupFiles, preU.backups)

\* every record of the log has its detail, in order, and is counted once;
\* a record not marked 'skipped' whose backup file is missing, whose current
\* file is missing or whose restore step raises has the status that says so
\* and counts as skipped
EveryRecordProcessed ==
    /\ Len(undoRes.details) = Len(UndoRecs)
    /\ undoRes.restored_count + undoRes.skipped_count = Len(UndoRecs)
    /\ undoRes.restored_count =
          Cardinality({i \in 1..Len(UndoRecs) :
                          undoRes.details[i].status = "Restored successfully"})
    /\ \A i \in 1..Len(UndoRecs) :
          LET r       == UndoRecs[i]
              before  == UndoStateAfter(i - 1)
              status  == undoRes.details[i].status
              backup  == r.original_name \in DOMAIN UndoBackupFiles
              current == r.new_name \in (DOMAIN before.d) \cup (DOMAIN preU.backups)
          IN  /\ undoRes.details[i].original_name = r.original_name
              /\ r.skipped = "" =>
                    /\ ~backup => status = "Backup file not found"
                    /\ (backup /\ ~current) => status = "Current file missing"
                    /\ (backup /\ current /\ preU.fault.at = i) => status = "Error"
                    /\ (backup /\ current /\ preU.fault.at # i
                           /\ r.new_name \notin DOMAIN preU.backups)
                          => status = "Restored successfully"

FailedStatuses == {"Backup file not found", "Current file missing", "Error"}

\* C19 as stated: per-record isolation in undo - a record whose backup file
\* is missing, whose current file is missing or whose restore step raises is
\* counted in skipped_count with a status that says so and leaves the files
\* as they were; every other record is still processed.
C19_Isolation ==
    UndoLooped =>
        /\ EveryRecordProcessed
        /\ \A i \in 1..Len(UndoRecs) :
              undoRes.details[i].status \in FailedStatuses =>
                  UndoStateAfter(i).d = UndoStateAfter(i - 1).d

\* C19 amended: the same, but a record whose restore step raises leaves the
\* files as they were only when the copy raises before it writes; when the
\* removal of the renamed file raises, the original path holds the backup's
\* content and the renamed file is still in place.
C19_IsolationButRemove ==
    UndoLooped =>
        /\ EveryRecordProcessed
        /\ \A i \in 1..Len(UndoRecs) :
              LET r      == UndoRecs[i]
                  before == UndoStateAfter(i - 1).d
                  after  == UndoStateAfter(i).d
                  status == undoRes.details[i].status
              IN  /\ status \in {"Backup file not found", "Current file missing"}
                        => after = before
                  /\ (status = "Error" /\ preU.fault = [at |-> i, op |-> "copy"])
                        => after = before
                  /\ (status = "Error" /\ preU.fault # [at |-> i, op |-> "copy"])
                        => /\ after = Put(before, r.original_name,
                                          UndoBackupFiles[r.original_name])
                           /\ r.new_name \in DOMAIN before => r.new_name \in DOMAIN after

C19_Witness ==
    /\ UndoLooped
    /\ \E i \in 1..Len(UndoRecs) :
          /\ undoRes.details[i].status = "Error"
          /\ preU.fault.op = "remove"
          /\ UndoStateAfter(i).d # UndoStateAfter(i - 1).d
          /\ \E j \in (i + 1)..Len(UndoRecs) :
                undoRes.details[j].status = "Restored successfully"

\* C20: a record that the apply marked 'skipped' is reported as skipped by
\* undo and counted in skipped_count, and after the undo its file is as it
\* was before the undo: not copied over, not overwritten, not removed.
C20_SkippedUntouched ==
    UndoLooped =>
        /\ undoRes.skipped_count >= Cardinality(SkippedRecs(UndoRecs))
        /\ \A i \in SkippedRecs(UndoRecs) :
              LET x == UndoRecs[i].original_name
              IN  /\ undoRes.details[i] =
                        [original_name |-> x, status |-> "Skipped (was not renamed)"]
                  /\ UndoStateAfter(i).skipped = UndoStateAfter(i - 1).skipped + 1
                  /\ UndoStateAfter(i).restored = UndoStateAfter(i - 1).restored
                  /\ x \in DOMAIN dir <=> x \in DOMAIN preU.dir
                  /\ x \in DOMAIN dir => dir[x] = preU.dir[x]

C20_Witness ==
    /\ UndoLooped
    /\ \E i \in SkippedRecs(UndoRecs) :
          LET x == UndoRecs[i].original_name
          IN  /\ x \in DOMAIN dir
              /\ x \in DOMAIN UndoBackupFiles
              /\ UndoBackupFiles[x] # dir[x]

\* the record carries exactly one of 'skipped' and 'renamed_at'
ExactlyOneMark(r) == (r.skipped # "") # (r.renamed_at # 0)

\* the file of record r has been moved: the content that lay at its
\* original name when the apply started lies at its new name
Moved(r) ==
    /\ r.new_name # r.original_name
    /\ r.original_name \in DOMAIN pre
    /\ r.new_name \in DOMAIN dir
    /\ \/ Content(dir[r.new_name]) = Content(pre[r.original_name])
       \/ ApplyCompleted /\ r.new_name = ret.log_file

\* C21: record invariant - every record that a non-dry-run apply has
\* finished processing, returns and logs carries exactly one of 'skipped'
\* and 'renamed_at', with 'renamed_at' only on records whose file was moved;
\* every record of a dry run carries neither.
C21_RecordMarks ==
    /\ (ApplyCalled /\ ~cfg.dry_run) =>
          \A i \in 1..Len(rename_records) :
              /\ ExactlyOneMark(rename_records[i])
              /\ rename_records[i].renamed_at # 0 => Moved(rename_records[i])
              /\ rename_records[i].skipped # "" =>
                    rename_records[i].new_name = rename_records[i].original_name
    /\ ApplyCompleted =>
          /\ ret.records = rename_records
          /\ dir[ret.log_file].recs = ret.records
    /\ (ApplyCalled /\ cfg.dry_run) =>
          /\ \A i \in 1..Len(rename_records) :
                rename_records[i].skipped = "" /\ rename_records[i].renamed_at = 0
          /\ (pc = "idle" /\ ret.status = "ok") => ret.records = rename_records

C21_Witness ==
    /\ ApplyCompleted
    /\ SkippedRecs(dir[ret.log_file].recs) # {}
    /\ Renamed(dir[ret.log_file].recs) # {}
    /\ \E i \in Renamed(ret.records) :
          /\ ret.records[i].renamed_at > 1
          /\ ret.records[i].original_name \notin DOMAIN dir

\* the logs in directory d that rename_files has written
WrittenLogs(d) == {n \in DOMAIN d : d[n].kind = "log" /\ d[n].by # 0}

\* a completed non-dry-run apply has left exactly one log of its own, at
\* its log path, holding its records
OwnLog ==
    ApplyCompleted =>
        /\ ret.log_file = DefaultLogFile(dir[ret.log_file].gen)
        /\ {n \in WrittenLogs(dir) : dir[n].by = ret.op} = {ret.log_file}
        /\ dir[ret.log_file].recs = ret.records

\* a step of rename_files leaves the content of every log written by an
\* earlier apply in the directory, under its name or under the name it has
\* been renamed to
LogsKept ==
    pc # "idle" =>
        \A n \in WrittenLogs(dir) :
            \E m \in DOMAIN dir' : Content(dir'[m]) = Content(dir[n])

\* C22 as stated: one log per apply - each non-dry-run apply corresponds to
\* exactly one log file that holds the records of that apply only; no two
\* applies share a log file and no later apply overwrites the log of an
\* earlier one.
C22_OneLogPerApply == [](OwnLog) /\ [][LogsKept]_vars

\* the same for an apply that starts in a later second than every log in
\* the directory was written
C22_LaterSecond ==
    [][(\A n \in WrittenLogs(dir) : dir[n].gen < now) => LogsKept]_vars

\* C23 as stated: the log and the backup files are read-only for undo -
\* after undo_rename the log file it read and the backup directory it
\* selected, with every file in it, still exist with the same content.
C23_UndoReadOnly ==
    UndoDone =>
        /\ backups = preU.backups
        /\ preU.lg # <<>> =>
              /\ preU.lg \in DOMAIN dir
              /\ dir[preU.lg] = preU.dir[preU.lg]

\* the same for a log that is not named by one of its own records
C23_LogNotInRecords ==
    (/\ UndoDone
     /\ preU.lg # <<>>
     /\ \A i \in 1..Len(preU.dir[preU.lg].recs) :
           /\ preU.dir[preU.lg].recs[i].original_name # preU.lg
           /\ preU.dir[preU.lg].recs[i].new_name # preU.lg)
    => /\ backups = preU.backups
       /\ preU.lg \in DOMAIN dir
       /\ dir[preU.lg] = preU.dir[preU.lg]

\* C24: lazy backup directory - a non-dry-run apply creates its backup
\* directory only when it is about to rename its first file; after an apply
\* in which every record is skipped that apply has created no backup
\* directory, although the result reports a backup_dir path and the log is
\* written.
C24_LazyBackupDir ==
    (ApplyCalled /\ ~cfg.dry_run) =>
        /\ (Renamed(rename_records) = {} /\ pc # "move") => backups = preB
        /\ backups # preB =>
              /\ backup_dir \in DOMAIN backups
              /\ \A b \in (DOMAIN backups) \ {backup_dir} :
                    b \in DOMAIN preB /\ backups[b] = preB[b]
        /\ (ApplyCompleted /\ Renamed(ret.records) = {}) =>
              /\ backups = preB
              /\ ret.backup_dir = backup_dir
              /\ IsBackupName(ret.backup_dir)
              /\ ret.log_file \in DOMAIN dir
              /\ dir[ret.log_file].by = ret.op
              /\ dir[ret.log_file].recs = ret.records

C24_Witness ==
    /\ ApplyCompleted
    /\ Len(ret.records) >= 3
    /\ Renamed(ret.records) = {}
    /\ ret.backup_dir \notin DOMAIN backups
    /\ backups # EmptyMap
    /\ dir[ret.log_file].by = ret.op

\* a non-dry-run apply has aborted with FileExistsError after it had renamed
\* at least one file
AbortedAfterRename ==
    /\ ~cfg.dry_run
    /\ ret.status = "FileExistsError"
    /\ Renamed(rename_records) # {}

\* undo_rename has run directly after that apply
UndoAfterAbort == UndoDone /\ preU.last = "apply" /\ AbortedAfterRename

\* the file of record r of the aborted apply is under its new name
StillRenamed(r) ==
    /\ r.new_name \in DOMAIN dir
    /\ Content(dir[r.new_name]) = Content(pre[r.original_name])

\* the rename of record r has been reversed by the undo: the file is back
\* under its original name and gone from its new name
RenameUndone(r) ==
    /\ r.original_name \in DOMAIN dir
    /\ Content(dir[r.original_name]) = Content(pre[r.original_name])
    /\ r.original_name \notin DOMAIN preU.dir
    /\ r.new_name \notin DOMAIN dir

Contents(d) == {Content(d[n]) : n \in DOMAIN d}

\* the contents held by the target directory and by the backup directories
Held ==
    Contents(dir) \cup UNION {Contents(backups[b].files) : b \in DOMAIN backups}

\* C26 as stated: no content is lost - over any sequence of apply and undo
\* operations, every file content that was in the directory initially is
\* present in the directory or in some backup directory.
C26_NoContentLost == \A d \in InitDirsL : Contents(d) \subseteq Held

\* C27: undo accounting - whenever undo_rename reaches its loop over the
\* records, restored_count + skipped_count equals the number of records in
\* the log and the length of details, and details has one entry per record,
\* in log order.
C27_Accounting ==
    UndoLooped =>
        /\ undoRes.restored_count + undoRes.skipped_count = Len(UndoRecs)
        /\ Len(undoRes.details) = Len(UndoRecs)
        /\ undoRes.restored_count >= 0
        /\ undoRes.skipped_count >= 0
        /\ \A i \in 1..Len(UndoRecs) :
              /\ undoRes.details[i].original_name = UndoRecs[i].original_name
              /\ undoRes.details[i].status # ""

C27_Witness ==
    /\ UndoLooped
    /\ Len(UndoRecs) >= 3
    /\ undoRes.restored_count >= 1
    /\ \E i, j \in 1..Len(UndoRecs) :
          /\ undoRes.details[i].status = "Error"
          /\ undoRes.details[j].status = "Skipped (was not renamed)"

\* the base names that occur as original_path or new_path of a record
\* without 'skipped' in the log that the undo selected
UndoPaths ==
    IF preU.lg = <<>> THEN {}
    ELSE UNION {{preU.dir[preU.lg].recs[i].original_name,
                 preU.dir[preU.lg].recs[i].new_name} :
                   i \in (1..Len(preU.dir[preU.lg].recs))
                            \ SkippedRecs(preU.dir[preU.lg].recs)}

\* C28: undo frame - undo_rename creates, overwrites or removes only paths
\* that are original_path or new_path of a record without 'skipped' of the
\* selected log; every other file in the directory is left unchanged.
C28_UndoFrame ==
    UndoDone =>
        \A n \in ((DOMAIN dir) \cup (DOMAIN preU.dir)) \ UndoPaths :
            /\ n \in DOMAIN dir
            /\ n \in DOMAIN preU.dir
            /\ dir[n] = preU.dir[n]

C28_Witness ==
    /\ UndoLooped
    /\ dir # preU.dir
    /\ SkippedRecs(UndoRecs) # {}
    /\ \E n \in (DOMAIN preU.dir) \ UndoPaths : preU.dir[n].kind = "data"
    /\ \E n \in UndoPaths : n \in DOMAIN preU.dir /\ n \notin DOMAIN dir
    /\ \E n \in UndoPaths : n \in DOMAIN dir /\ n \notin DOMAIN preU.dir

\* the undo that has just run restored every record without 'skipped' of
\* its log
RestoredAll ==
    /\ UndoLooped
    /\ undoRes.restored_count = Len(UndoRecs) - Cardinality(SkippedRecs(UndoRecs))
    /\ undoRes.restored_count > 0

\* the step is a call of undo_rename that returns
UndoStep ==
    pc = "idle" /\ pc' = "idle" /\ ops' = ops + 1 /\ last' = "undo" /\ undoRes'.raised = ""

\* the second undo restores nothing, skips every record and changes nothing
RestoresNothing ==
    /\ undoRes'.restored_count = 0
    /\ ~undoRes'.success
    /\ undoRes'.skipped_count = Len(undoRes'.details)
    /\ undoRes'.skipped_count = Len(preU'.dir[preU'.lg].recs)
    /\ dir' = dir
    /\ backups' = backups

\* C29 as stated: repeated undo - when undo_rename runs a second time
\* directly after an undo that restored every record without 'skipped', the
\* second run restores nothing (restored_count 0, success false, every
\* record skipped) and leaves the filesystem unchanged.
C29_RepeatedUndo == [][(RestoredAll /\ UndoStep) => RestoresNothing]_vars

\* the same for a first undo whose log is not named by one of its own
\* records
C29_LogNotInRecords ==
    [][(/\ RestoredAll
        /\ UndoStep
        /\ \A i \in 1..Len(UndoRecs) :
              UndoRecs[i].original_name # preU.lg /\ UndoRecs[i].new_name # preU.lg)
       => RestoresNothing]_vars

\* the logs of earlier applies that lay in the directory when the apply
\* started
EarlierLogs == {n \in DOMAIN pre : pre[n].kind = "log" /\ pre[n].by # 0}

\* the allow-list of the configuration lets files with extension .json pass
JsonAllowed(c) ==
    \/ c.extensions = <<>>
    \/ \E i \in 1..Len(c.extensions) : c.extensions[i] = JsonExt

\* C30: logs of earlier applies are ordinary files to a later apply - when
\* such a log lies in the directory and the allow-list does not exclude
\* .json, a later non-dry-run apply lists it among its records, computes its
\* new name as for any file and, when that name differs, backs it up and
\* moves it; the backup directories of earlier applies are never listed or
\* renamed.
C30_LogsAreFiles ==
    /\ (ApplyCompleted /\ JsonAllowed(cfg)) =>
          \A n \in EarlierLogs :
              \E i \in 1..Len(ret.records) :
                  LET r == ret.records[i]
                      t == dir[ret.log_file].gen
                      built == _build_new_name(n, cfg, cfg.numbering_start + i - 1, t)
                  IN  /\ r.original_name = n
                      /\ r.new_name = built.name
                      /\ r.new_name = n => r.skipped # ""
                      /\ r.new_name # n =>
                            /\ r.renamed_at # 0
                            /\ n \in DOMAIN backups[ret.backup_dir].files
                            /\ backups[ret.backup_dir].files[n] = pre[n]
                            /\ \/ dir[r.new_name] = pre[n]
                               \/ r.new_name = ret.log_file
                            /\ \/ n \notin DOMAIN dir
                               \/ n = ret.log_file
                               \/ \E j \in (i + 1)..Len(ret.records) :
                                     ret.records[j].new_name = n
    /\ (ApplyCalled /\ ~cfg.dry_run) =>
          \A b \in DOMAIN preB :
              /\ b \in DOMAIN backups
              /\ \A i \in 1..Len(files) : files[i] # b
              /\ \A i \in 1..Len(rename_records) :
                    rename_records[i].original_name # b

C30_Witness ==
    /\ ApplyCompleted
    /\ preB # EmptyMap
    /\ now > 1
    /\ \E n \in EarlierLogs :
          /\ IsLogName(n)
          /\ n # ret.log_file
          /\ n \notin DOMAIN dir
          /\ \E i \in Renamed(ret.records) :
                /\ ret.records[i].original_name = n
                /\ ~IsLogName(ret.records[i].new_name)

====
